---- MODULE Spec2Model ----
(***************************************************************************)
(* The paginated home listing of the mini CMS: the Home server component   *)
(* (src/src/app/page.tsx), the PostList, PostCard and Pagination           *)
(* components it renders, and the Post and Category tables of the schema.  *)
(*                                                                         *)
(* The specifications:                                                     *)
(*   Spec      a listing request over a Post table: parse the page         *)
(*             parameter, count, fetch, render;                            *)
(*   CalcSpec  the pagination arithmetic of Home alone, over every raw     *)
(*             page string up to MaxLen characters and every total count   *)
(*             up to MaxCount;                                             *)
(*   NavSpec   the Pagination component over its two props;                *)
(*   CardSpec  the PostCard component over its post prop;                  *)
(*   StoreSpec inserts and deletes against the two tables under the        *)
(*             constraints of the migration;                               *)
(*   WriteSpec listing requests served while such writes are committed;    *)
(*   DraftSpec the same with posts created without a published value;      *)
(*   RepeatSpec the arithmetic of Home evaluated request after request;    *)
(*   PagesSpec a visitor requesting page 1, 2, ... of an unchanging table; *)
(*   WalkSpec  a visitor following the Next and Previous links;            *)
(*   SeedSpec  prisma/seed.ts and the listing after it;                    *)
(*   ScriptSpec scripts/test-db.ts.                                        *)
(***************************************************************************)
EXTENDS Integers, Sequences, FiniteSets

VARIABLES
    posts,        \* the Post table: a set of rows
    pc,           \* where the request is: idle, count, fetch, done, failed
    searchParams, \* the request's query parameters: [present, value]
    currentPage,  \* Home: const currentPage (a JS number)
    offset,       \* Home: const offset (a JS number)
    totalPosts,   \* Home: const totalPosts
    totalPages,   \* Home: const totalPages
    fetchArgs,    \* the findMany call in flight: [skip, take]
    fetched,      \* Home: const posts, the rows findMany returned
    view,         \* what PostList rendered
    error,        \* why the request failed: none, store, validation
    queries,      \* the store queries the request issued, oldest first
    categories,   \* the Category table: a set of rows
    version,      \* the number of writes the store has committed
    writeResult,  \* the last write to the store: [op, outcome, nulled]
    post,         \* PostCard: the post prop
    card,         \* what PostCard rendered
    evaluations,  \* the inputs and outputs of the page arithmetic evaluated so far
    trail,        \* the pages a visitor has been shown, oldest first
    connected,    \* a script's store client holds a connection
    exitCode      \* a script's exit code, Null while it runs

vars == <<posts, pc, searchParams, currentPage, offset, totalPosts, totalPages,
          fetchArgs, fetched, view, error, queries, categories, version,
          writeResult, post, card, evaluations, trail, connected, exitCode>>

\* what a listing request never touches, besides the Post table
besideListing ==
    <<categories, version, writeResult, post, card, evaluations, trail, connected,
      exitCode>>

(***************************************************************************)
(* Bounds of the model.                                                    *)
(***************************************************************************)
\* rows in the Post table
MaxPosts == 26
\* characters of a raw page parameter (CalcSpec)
MaxLen == 3
\* published posts counted (CalcSpec)
MaxCount == 25
\* the greatest currentPage handed to Pagination (NavSpec)
MaxPage == 8
\* the greatest totalPages handed to Pagination (NavSpec)
MaxTotalPages == 6
\* the greatest views and likes counter of a post handed to PostCard (CardSpec)
MaxCounter == 2
\* rows of the table a visitor pages through (PagesSpec, WalkSpec)
MaxBrowsed == 14
\* writes of the seed script the store commits (SeedSpec): two runs of 11
MaxSeedWrites == 22
\* evaluations of the page arithmetic in a row (RepeatSpec)
MaxEvaluations == 3
\* writes the store commits (StoreSpec)
MaxWrites == 5
\* posts in the table when the listing starts, and writes committed while
\* requests are served (WriteSpec)
MaxSeeded == 2
MaxRacing == 2

(***************************************************************************)
(* JS numbers: an integer or NaN.                                          *)
(***************************************************************************)
NaN == [nan |-> TRUE, val |-> 0]

Num(n) == [nan |-> FALSE, val |-> n]

IsNum(a) == ~a.nan

\* Math.max(a, b): NaN when either argument is NaN
JsMax(a, b) ==
    IF a.nan \/ b.nan THEN NaN
    ELSE Num(IF a.val >= b.val THEN a.val ELSE b.val)

JsSub(a, b) == IF a.nan \/ b.nan THEN NaN ELSE Num(a.val - b.val)

JsAdd(a, b) == IF a.nan \/ b.nan THEN NaN ELSE Num(a.val + b.val)

JsMul(a, b) == IF a.nan \/ b.nan THEN NaN ELSE Num(a.val * b.val)

\* a === b: false when either side is NaN
JsStrictEq(a, b) == ~a.nan /\ ~b.nan /\ a.val = b.val

\* a >= b: false when either side is NaN
JsGe(a, b) == ~a.nan /\ ~b.nan /\ a.val >= b.val

(***************************************************************************)
(* Strings are sequences of one-character strings.                         *)
(***************************************************************************)
DigitChars == <<"0", "1", "2", "3", "4", "5", "6", "7", "8", "9">>

IsDigit(c) == \E i \in 1..10 : DigitChars[i] = c

DigitVal(c) == (CHOOSE i \in 1..10 : DigitChars[i] = c) - 1

IsWhiteSpace(c) == c = " "

RECURSIVE TrimStart(_)
TrimStart(s) ==
    IF s # <<>> /\ IsWhiteSpace(Head(s)) THEN TrimStart(Tail(s)) ELSE s

\* the longest prefix of s made of decimal digits
RECURSIVE DigitPrefix(_)
DigitPrefix(s) ==
    IF s # <<>> /\ IsDigit(Head(s))
    THEN <<Head(s)>> \o DigitPrefix(Tail(s))
    ELSE <<>>

RECURSIVE MathInt(_, _)
MathInt(z, acc) ==
    IF z = <<>> THEN acc ELSE MathInt(Tail(z), acc * 10 + DigitVal(Head(z)))

\* parseInt(s, 10)
ParseInt(s) ==
    LET S == TrimStart(s)
        signed == S # <<>> /\ Head(S) \in {"+", "-"}
        sign == IF S # <<>> /\ Head(S) = "-" THEN -1 ELSE 1
        Z == DigitPrefix(IF signed THEN Tail(S) ELSE S)
    IN  IF Z = <<>> THEN NaN ELSE Num(sign * MathInt(Z, 0))

(***************************************************************************)
(* Home: the pagination arithmetic.                                        *)
(***************************************************************************)
POSTS_PER_PAGE == 6

NoParams == [present |-> FALSE, value |-> <<>>]

PageParam(s) == [present |-> TRUE, value |-> s]

\* resolvedSearchParams.page || '1'
PageOrDefault(sp) ==
    IF ~sp.present \/ sp.value = <<>> THEN <<"1">> ELSE sp.value

\* CurrentPage with Math.min written for Math.max
CurrentPageMin(sp) ==
    LET n == ParseInt(PageOrDefault(sp))
    IN  IF n.nan THEN NaN ELSE Num(IF n.val <= 1 THEN n.val ELSE 1)

\* Math.max(1, parseInt(resolvedSearchParams.page || '1', 10))
CurrentPage(sp) == JsMax(Num(1), ParseInt(PageOrDefault(sp)))

\* Offset without the "- 1"
OffsetFromPage(cp) == JsMul(cp, Num(POSTS_PER_PAGE))

\* (currentPage - 1) * POSTS_PER_PAGE
Offset(cp) == JsMul(JsSub(cp, Num(1)), Num(POSTS_PER_PAGE))

\* TotalPages with Math.floor written for Math.ceil
TotalPagesFloor(n) == n \div POSTS_PER_PAGE

\* Math.ceil(totalPosts / POSTS_PER_PAGE)
TotalPages(n) ==
    IF n % POSTS_PER_PAGE = 0
    THEN n \div POSTS_PER_PAGE
    ELSE n \div POSTS_PER_PAGE + 1

\* FindManyArgs with a take of one row more than a page
FindManyArgsOverlapping(off) == [skip |-> off, take |-> POSTS_PER_PAGE + 1]

\* the arguments of db.post.findMany: skip: offset, take: POSTS_PER_PAGE
FindManyArgs(off) == [skip |-> off, take |-> POSTS_PER_PAGE]

NoArgs == [skip |-> Num(0), take |-> 0]

(***************************************************************************)
(* The Post table and the two queries Home issues.                         *)
(***************************************************************************)
\* a row of the Post table, as far as the listing reads it
PostRow(i, pub, at) ==
    [id |-> i, published |-> pub, createdAt |-> at, views |-> 0, likes |-> 0]

\* Published without the where clause
PublishedAndDrafts(store) == store

\* where: { published: true }
Published(store) == {p \in store : p.published}

\* db.post.count() without the where clause
CountAll(store) == Cardinality(store)

\* db.post.count({ where: { published: true } })
CountPublished(store) == Cardinality(Published(store))

\* the orders the store may give two rows with the same createdAt
TieBreaks == {"idAsc", "idDesc"}

\* Before with orderBy: { createdAt: 'asc' }
BeforeAscending(r, q, tb) ==
    \/ r.createdAt < q.createdAt
    \/ /\ r.createdAt = q.createdAt
       /\ IF tb = "idAsc" THEN r.id < q.id ELSE r.id > q.id

\* r comes before q under orderBy: { createdAt: 'desc' }
Before(r, q, tb) ==
    \/ r.createdAt > q.createdAt
    \/ /\ r.createdAt = q.createdAt
       /\ IF tb = "idAsc" THEN r.id < q.id ELSE r.id > q.id

RECURSIVE OrderByCreatedAtDesc(_, _)
OrderByCreatedAtDesc(rows, tb) ==
    IF rows = {} THEN <<>>
    ELSE LET r == CHOOSE x \in rows : \A q \in rows \ {x} : Before(x, q, tb)
         IN  <<r>> \o OrderByCreatedAtDesc(rows \ {r}, tb)

\* Skip that skips nothing
SkipNothing(s, k) == s

\* skip: k
RECURSIVE Skip(_, _)
Skip(s, k) == IF k <= 0 \/ s = <<>> THEN s ELSE Skip(Tail(s), k - 1)

\* take: k
RECURSIVE Take(_, _)
Take(s, k) ==
    IF k <= 0 \/ s = <<>> THEN <<>> ELSE <<Head(s)>> \o Take(Tail(s), k - 1)

\* db.post.findMany({ where, orderBy, skip, take }) with an integer skip
FindMany(store, skip, take, tb) ==
    Take(Skip(OrderByCreatedAtDesc(Published(store), tb), skip), take)

(***************************************************************************)
(* The components Home renders.                                            *)
(***************************************************************************)
NoNav ==
    [rendered |-> FALSE, prevDisabled |-> TRUE, prevPage |-> Num(0),
     nextDisabled |-> TRUE, nextPage |-> Num(0)]

\* Pagination with isLastPage = (currentPage === totalPages)
PaginationLastByEquality(cp, tp) ==
    IF tp <= 1 THEN NoNav
    ELSE [rendered |-> TRUE,
          prevDisabled |-> JsStrictEq(cp, Num(1)),
          prevPage |-> JsSub(cp, Num(1)),
          nextDisabled |-> JsStrictEq(cp, Num(tp)),
          nextPage |-> JsAdd(cp, Num(1))]

\* Pagination with nextPage = currentPage + 2
PaginationNextSkips(cp, tp) ==
    IF tp <= 1 THEN NoNav
    ELSE [rendered |-> TRUE,
          prevDisabled |-> JsStrictEq(cp, Num(1)),
          prevPage |-> JsSub(cp, Num(1)),
          nextDisabled |-> JsGe(cp, Num(tp)),
          nextPage |-> JsAdd(cp, Num(2))]

\* Pagination({ currentPage, totalPages })
Pagination(cp, tp) ==
    IF tp <= 1 THEN NoNav
    ELSE [rendered |-> TRUE,
          prevDisabled |-> JsStrictEq(cp, Num(1)),
          prevPage |-> JsSub(cp, Num(1)),
          nextDisabled |-> JsGe(cp, Num(tp)),
          nextPage |-> JsAdd(cp, Num(1))]

NoView ==
    [kind |-> "none", firstPost |-> Num(0), lastPost |-> Num(0), totalPosts |-> 0,
     cards |-> <<>>, pagination |-> NoNav]

\* the "No posts found" message of PostList
EmptyState == [NoView EXCEPT !.kind = "empty"]

\* PostList without the early return for an empty page
PostListNoEmptyState(ps, cp, tp, total) ==
    LET firstPost == JsAdd(JsMul(JsSub(cp, Num(1)), Num(POSTS_PER_PAGE)), Num(1))
        lastPost == JsSub(JsAdd(firstPost, Num(Len(ps))), Num(1))
    IN  [kind |-> "list", firstPost |-> firstPost, lastPost |-> lastPost,
         totalPosts |-> total, cards |-> [i \in 1..Len(ps) |-> ps[i].id],
         pagination |-> Pagination(cp, tp)]

\* PostList with the navigation control rendered under the empty-state message
PostListEmptyWithNav(ps, cp, tp, total) ==
    IF Len(ps) = 0 THEN [EmptyState EXCEPT !.pagination = Pagination(cp, tp)]
    ELSE PostListNoEmptyState(ps, cp, tp, total)

\* PostList({ posts, currentPage, totalPages, totalPosts })
PostList(ps, cp, tp, total) ==
    IF Len(ps) = 0 THEN EmptyState
    ELSE LET firstPost == JsAdd(JsMul(JsSub(cp, Num(1)), Num(POSTS_PER_PAGE)), Num(1))
             lastPost == JsSub(JsAdd(firstPost, Num(Len(ps))), Num(1))
         IN  [kind |-> "list", firstPost |-> firstPost, lastPost |-> lastPost,
              totalPosts |-> total, cards |-> [i \in 1..Len(ps) |-> ps[i].id],
              pagination |-> Pagination(cp, tp)]

(***************************************************************************)
(* PostCard.  A nullable field is a sequence of at most one value; a       *)
(* rendered slot is the sequence of what it shows (empty when omitted).    *)
(***************************************************************************)
Null == <<>>

Some(x) == <<x>>

\* the Post type with its included category: title, excerpt | null,
\* category | null, views, likes, createdAt as <<year, month, day>>
PostProp(title, excerpt, category, views, likes, createdAt) ==
    [title |-> title, excerpt |-> excerpt, category |-> category, views |-> views,
     likes |-> likes, createdAt |-> createdAt]

\* PostCard's post prop before any card is rendered
NoPost == PostProp("", Null, Null, 0, 0, <<1970, 1, 1>>)

NoCard ==
    [rendered |-> FALSE, badge |-> <<>>, title |-> <<>>, excerpt |-> <<>>,
     views |-> <<>>, likes |-> <<>>, date |-> <<>>]

MonthNames ==
    <<"January", "February", "March", "April", "May", "June", "July", "August",
      "September", "October", "November", "December">>

\* toLocaleDateString('en-US', { year: 'numeric', month: 'long', day: 'numeric' })
FormatDate(d) == <<MonthNames[d[2]], d[3], d[1]>>

\* post.category && ...: an object is truthy, null is not
CategoryTruthy(c) == c # Null

\* post.excerpt && ...: a non-empty string is truthy, null and "" are not
ExcerptTruthy(x) == x # Null /\ x[1] # ""

\* PostCard with the excerpt paragraph rendered unconditionally
PostCardAlwaysExcerpt(p) ==
    [rendered |-> TRUE,
     badge |-> IF CategoryTruthy(p.category) THEN <<p.category[1].name>> ELSE <<>>,
     title |-> <<p.title>>,
     excerpt |-> IF p.excerpt # Null THEN <<p.excerpt[1]>> ELSE <<"">>,
     views |-> <<p.views>>,
     likes |-> <<p.likes>>,
     date |-> <<FormatDate(p.createdAt)>>]

\* PostCard({ post })
PostCard(p) ==
    [rendered |-> TRUE,
     badge |-> IF CategoryTruthy(p.category) THEN <<p.category[1].name>> ELSE <<>>,
     title |-> <<p.title>>,
     excerpt |-> IF ExcerptTruthy(p.excerpt) THEN <<p.excerpt[1]>> ELSE <<>>,
     views |-> <<p.views>>,
     likes |-> <<p.likes>>,
     date |-> <<FormatDate(p.createdAt)>>]

(***************************************************************************)
(* The two tables and the writes the store accepts, from the constraints   *)
(* of the migration: primary keys, unique indexes, the foreign key of      *)
(* Post.categoryId with ON DELETE SET NULL.  Columns no constraint and no  *)
(* query reads (title, content, excerpt, updatedAt) are left out.          *)
(***************************************************************************)
CategoryRow(id, name, slug) == [id |-> id, name |-> name, slug |-> slug]

\* a row of the Post table with the columns the constraints are about;
\* createdAt is the time of the insert, counted in committed writes
PostRecord(id, slug, pub, cat, at) ==
    [id |-> id, slug |-> slug, published |-> pub, views |-> 0, likes |-> 0,
     categoryId |-> cat, createdAt |-> at]

NoWrite == [op |-> "none", outcome |-> "none", nulled |-> {}]

Committed(op, nulled) == [op |-> op, outcome |-> "ok", nulled |-> nulled]

Rejected(op) == [op |-> op, outcome |-> "rejected", nulled |-> {}]

\* what a write to the store never touches
besideStore ==
    <<pc, searchParams, currentPage, offset, totalPosts, totalPages, fetchArgs,
      fetched, view, error, queries, post, card, evaluations, trail, connected,
      exitCode>>

\* Category_pkey, Category_name_key, Category_slug_key
CategoryAccepted(row) ==
    \A c \in categories : c.id # row.id /\ c.name # row.name /\ c.slug # row.slug

\* PostAccepted without Post_categoryId_fkey
PostAcceptedNoForeignKey(row) ==
    \A p \in posts : p.id # row.id /\ p.slug # row.slug

\* Post_pkey, Post_slug_key, Post_categoryId_fkey
PostAccepted(row) ==
    /\ \A p \in posts : p.id # row.id /\ p.slug # row.slug
    /\ \/ row.categoryId = Null
       \/ \E c \in categories : row.categoryId = Some(c.id)

\* INSERT INTO "Category"
InsertCategory(id, name, slug) ==
    /\ IF CategoryAccepted(CategoryRow(id, name, slug))
       THEN /\ version < MaxWrites
            /\ categories' = categories \cup {CategoryRow(id, name, slug)}
            /\ version' = version + 1
            /\ writeResult' = Committed("InsertCategory", {})
       ELSE /\ writeResult' = Rejected("InsertCategory")
            /\ UNCHANGED <<categories, version>>
    /\ UNCHANGED <<posts, besideStore>>

\* INSERT INTO "Post"
InsertPost(id, slug, pub, cat) ==
    /\ IF PostAccepted(PostRecord(id, slug, pub, cat, version + 1))
       THEN /\ version < MaxWrites
            /\ posts' = posts \cup {PostRecord(id, slug, pub, cat, version + 1)}
            /\ version' = version + 1
            /\ writeResult' = Committed("InsertPost", {})
       ELSE /\ writeResult' = Rejected("InsertPost")
            /\ UNCHANGED <<posts, version>>
    /\ UNCHANGED <<categories, besideStore>>

\* "published" declared DEFAULT true
PublishedDefaultTrue == TRUE

\* "published" BOOLEAN NOT NULL DEFAULT false
PublishedDefault == FALSE

\* INSERT INTO "Post" with no value for "published"
InsertPostDefault(id, slug, cat) ==
    /\ IF PostAccepted(PostRecord(id, slug, PublishedDefault, cat, version + 1))
       THEN /\ version < MaxWrites
            /\ posts' = posts \cup
                    {PostRecord(id, slug, PublishedDefault, cat, version + 1)}
            /\ version' = version + 1
            /\ writeResult' = Committed("InsertPostDefault", {})
       ELSE /\ writeResult' = Rejected("InsertPostDefault")
            /\ UNCHANGED <<posts, version>>
    /\ UNCHANGED <<categories, besideStore>>

\* UPDATE "Post" SET "published" = true WHERE id = ...
PublishPost(id) ==
    /\ \E p \in posts : p.id = id /\ ~p.published
    /\ version < MaxWrites
    /\ posts' = {IF p.id = id THEN [p EXCEPT !.published = TRUE] ELSE p : p \in posts}
    /\ version' = version + 1
    /\ writeResult' = Committed("PublishPost", {})
    /\ UNCHANGED <<categories, besideStore>>

\* the rows of the Post table that reference category id
Referencing(id) == {p \in posts : p.categoryId = Some(id)}

\* ON DELETE CASCADE written for ON DELETE SET NULL
OnDeleteCascade(id) == posts \ Referencing(id)

\* Post_categoryId_fkey ... ON DELETE SET NULL: the Post table after category
\* id is deleted
OnDeleteSetNull(id) ==
    {IF p \in Referencing(id) THEN [p EXCEPT !.categoryId = Null] ELSE p : p \in posts}

\* DELETE FROM "Category" WHERE id = ...
DeleteCategory(id) ==
    /\ \E c \in categories : c.id = id
    /\ version < MaxWrites
    /\ categories' = {c \in categories : c.id # id}
    /\ posts' = OnDeleteSetNull(id)
    /\ version' = version + 1
    /\ writeResult' = Committed("DeleteCategory", {p.id : p \in Referencing(id)})
    /\ UNCHANGED besideStore

\* DELETE FROM "Post" WHERE id = ...
DeletePost(id) ==
    /\ \E p \in posts : p.id = id
    /\ version < MaxWrites
    /\ posts' = {p \in posts : p.id # id}
    /\ version' = version + 1
    /\ writeResult' = Committed("DeletePost", {})
    /\ UNCHANGED <<categories, besideStore>>

(***************************************************************************)
(* The queries a request issues, each with the store version that answered *)
(* it (-1 while it is in flight).                                          *)
(***************************************************************************)
InFlight(name) == [name |-> name, at |-> -1]

\* the query issued last has been answered by the store at version v
Answered(qs, v) == [qs EXCEPT ![Len(qs)].at = v]

(***************************************************************************)
(* Spec: a listing request over a Post table.                              *)
(***************************************************************************)
\* The tables the requests run against: n rows, created one after the other;
\* row d (if any) is a draft; rows t and t+1 (if any) share their createdAt.
Store(n, d, t) ==
    {PostRow(i, i # d, IF t # 0 /\ i > t THEN i - 1 ELSE i) : i \in 1..n}

Stores ==
    {Store(n, 0, 0) : n \in 0..MaxPosts}
        \cup UNION {{Store(n, d, 0) : d \in 1..n} : n \in 1..MaxPosts}
        \cup UNION {{Store(n, 0, t) : t \in 1..(n - 1)} : n \in 2..MaxPosts}

\* the page parameters the requests carry
RequestParams ==
    {NoParams} \cup
    {PageParam(s) : s \in {<<>>, <<"1">>, <<"2">>, <<"3">>, <<"5">>, <<"1", "0">>,
                           <<"0">>, <<"-", "5">>, <<"a", "b", "c">>}}

Idle ==
    /\ pc = "idle"
    /\ searchParams = NoParams
    /\ currentPage = Num(1)
    /\ offset = Num(0)
    /\ totalPosts = 0
    /\ totalPages = 0
    /\ fetchArgs = NoArgs
    /\ fetched = <<>>
    /\ view = NoView
    /\ error = "none"
    /\ queries = <<>>

\* nothing written yet, no card rendered
Untouched ==
    /\ version = 0
    /\ writeResult = NoWrite
    /\ post = NoPost
    /\ card = NoCard
    /\ evaluations = {}
    /\ trail = <<>>
    /\ connected = FALSE
    /\ exitCode = Null

Init ==
    /\ posts \in Stores
    /\ categories = {}
    /\ Idle
    /\ Untouched

\* Home is called with searchParams sp: the page arithmetic, then count() is issued
StartRequest(sp) ==
    /\ pc' = "count"
    /\ searchParams' = sp
    /\ currentPage' = CurrentPage(sp)
    /\ offset' = Offset(CurrentPage(sp))
    /\ totalPosts' = 0
    /\ totalPages' = 0
    /\ fetchArgs' = NoArgs
    /\ fetched' = <<>>
    /\ view' = NoView
    /\ error' = "none"
    /\ queries' = <<InFlight("count")>>
    /\ UNCHANGED <<posts, categories, version, writeResult, post, card, evaluations,
                   connected, exitCode>>

\* a request arrives while no other is being served
Request(sp) ==
    /\ pc \in {"idle", "done", "failed"}
    /\ StartRequest(sp)
    /\ UNCHANGED trail

\* CountReturns with the skip of findMany() reset when it is beyond the count
CountReturnsClampingSkip ==
    /\ pc = "count"
    /\ pc' = "fetch"
    /\ totalPosts' = CountPublished(posts)
    /\ totalPages' = TotalPages(CountPublished(posts))
    /\ fetchArgs' = FindManyArgs(IF IsNum(offset) /\ offset.val >= CountPublished(posts)
                                 THEN Num(0) ELSE offset)
    /\ queries' = Answered(queries, version) \o <<InFlight("findMany")>>
    /\ UNCHANGED <<posts, searchParams, currentPage, offset, fetched, view, error>>
    /\ UNCHANGED besideListing

\* count() resolves: totalPages is computed and findMany() is issued
CountReturns ==
    /\ pc = "count"
    /\ pc' = "fetch"
    /\ totalPosts' = CountPublished(posts)
    /\ totalPages' = TotalPages(CountPublished(posts))
    /\ fetchArgs' = FindManyArgs(offset)
    /\ queries' = Answered(queries, version) \o <<InFlight("findMany")>>
    /\ UNCHANGED <<posts, searchParams, currentPage, offset, fetched, view, error>>
    /\ UNCHANGED besideListing

\* CountFails with the rejection caught and the request going on without a total
CountFailsSwallowed ==
    /\ pc = "count"
    /\ pc' = "fetch"
    /\ error' = "store"
    /\ fetchArgs' = FindManyArgs(offset)
    /\ queries' = queries \o <<InFlight("findMany")>>
    /\ UNCHANGED <<posts, searchParams, currentPage, offset, totalPosts, totalPages,
                   fetched, view>>
    /\ UNCHANGED besideListing

\* count() rejects because the store is unavailable: the request fails
CountFails ==
    /\ pc = "count"
    /\ pc' = "failed"
    /\ error' = "store"
    /\ UNCHANGED <<posts, searchParams, currentPage, offset, totalPosts, totalPages,
                   fetchArgs, fetched, view, queries>>
    /\ UNCHANGED besideListing

\* FetchReturns with a view counter bumped on every row it shows
FetchReturnsCountingViews(tb) ==
    /\ pc = "fetch"
    /\ pc' = "done"
    /\ LET skip == IF IsNum(fetchArgs.skip) THEN fetchArgs.skip.val ELSE 0
           rows == FindMany(posts, skip, fetchArgs.take, tb)
           shown == {rows[i] : i \in 1..Len(rows)}
       IN  /\ fetched' = rows
           /\ view' = PostList(rows, currentPage, totalPages, totalPosts)
           /\ posts' = {IF p \in shown THEN [p EXCEPT !.views = p.views + 1] ELSE p
                            : p \in posts}
    /\ queries' = Answered(queries, version)
    /\ UNCHANGED <<searchParams, currentPage, offset, totalPosts, totalPages,
                   fetchArgs, error>>
    /\ UNCHANGED besideListing

\* findMany() resolves and Home renders PostList.  A skip that is not a number
\* is either refused by the client (FetchRejected) or dropped from the query.
FetchReturns(tb) ==
    /\ pc = "fetch"
    /\ pc' = "done"
    /\ LET skip == IF IsNum(fetchArgs.skip) THEN fetchArgs.skip.val ELSE 0
           rows == FindMany(posts, skip, fetchArgs.take, tb)
       IN  /\ fetched' = rows
           /\ view' = PostList(rows, currentPage, totalPages, totalPosts)
    /\ queries' = Answered(queries, version)
    /\ UNCHANGED <<posts, searchParams, currentPage, offset, totalPosts, totalPages,
                   fetchArgs, error>>
    /\ UNCHANGED besideListing

\* findMany() rejects a skip that is not a number: the request fails
FetchRejected ==
    /\ pc = "fetch"
    /\ ~IsNum(fetchArgs.skip)
    /\ pc' = "failed"
    /\ error' = "validation"
    /\ UNCHANGED <<posts, searchParams, currentPage, offset, totalPosts, totalPages,
                   fetchArgs, fetched, view, queries>>
    /\ UNCHANGED besideListing

\* findMany() rejects because the store is unavailable: the request fails
FetchFails ==
    /\ pc = "fetch"
    /\ pc' = "failed"
    /\ error' = "store"
    /\ UNCHANGED <<posts, searchParams, currentPage, offset, totalPosts, totalPages,
                   fetchArgs, fetched, view, queries>>
    /\ UNCHANGED besideListing

Next ==
    \/ \E sp \in RequestParams : Request(sp)
    \/ CountReturns
    \/ CountFails
    \/ \E tb \in TieBreaks : FetchReturns(tb)
    \/ FetchRejected
    \/ FetchFails

Spec == Init /\ [][Next]_vars

(***************************************************************************)
(* CalcSpec: the pagination arithmetic of Home on its own.  The inputs are *)
(* the raw page parameter and the count the store answered.                *)
(***************************************************************************)
\* the characters raw page parameters are made of: digits, signs, white
\* space, a letter and the decimal point
Alphabet == {"0", "1", "9", "-", "+", " ", "a", "."}

Strings == UNION {[1..k -> Alphabet] : k \in 0..MaxLen}

\* the page parameters the documentation and the scenarios name
NamedPages ==
    {<<"3">>, <<"1", "0">>, <<"-", "5">>, <<"a", "b", "c">>,
     <<"3", "a", "b", "c">>, <<"2", ".", "9">>}

RawInputs == {NoParams} \cup {PageParam(s) : s \in Strings \cup NamedPages}

CalcInit ==
    /\ posts = {}
    /\ pc = "input"
    /\ searchParams \in RawInputs
    /\ totalPosts \in 0..MaxCount
    /\ currentPage = Num(1)
    /\ offset = Num(0)
    /\ totalPages = 0
    /\ fetchArgs = NoArgs
    /\ fetched = <<>>
    /\ view = NoView
    /\ error = "none"
    /\ queries = <<>>
    /\ categories = {}
    /\ Untouched

\* one evaluation of the arithmetic: its inputs, the currentPage the request
\* before it had computed, and its outputs
Evaluation(sp, n, before, cp, off, tp) ==
    [page |-> sp, pageSize |-> POSTS_PER_PAGE, totalCount |-> n, earlier |-> before,
     currentPage |-> cp, offset |-> off, totalPages |-> tp]

\* Paginate with currentPage kept in a variable of the module, which a page
\* parameter that is not a number leaves as the request before set it
PaginateRemembering ==
    /\ pc = "input"
    /\ pc' = "paginated"
    /\ LET cp == IF IsNum(CurrentPage(searchParams))
                 THEN CurrentPage(searchParams) ELSE currentPage
       IN  /\ currentPage' = cp
           /\ offset' = Offset(cp)
           /\ totalPages' = TotalPages(totalPosts)
           /\ fetchArgs' = FindManyArgs(Offset(cp))
           /\ evaluations' = evaluations \cup
                    {Evaluation(searchParams, totalPosts, currentPage, cp, Offset(cp),
                                TotalPages(totalPosts))}
    /\ UNCHANGED <<posts, searchParams, totalPosts, fetched, view, error, queries>>
    /\ UNCHANGED <<categories, version, writeResult, post, card, trail, connected,
                   exitCode>>

\* Home's arithmetic: currentPage, offset, totalPages and the findMany arguments
Paginate ==
    /\ pc = "input"
    /\ pc' = "paginated"
    /\ currentPage' = CurrentPage(searchParams)
    /\ offset' = Offset(CurrentPage(searchParams))
    /\ totalPages' = TotalPages(totalPosts)
    /\ fetchArgs' = FindManyArgs(Offset(CurrentPage(searchParams)))
    /\ evaluations' = evaluations \cup
            {Evaluation(searchParams, totalPosts, currentPage, CurrentPage(searchParams),
                        Offset(CurrentPage(searchParams)), TotalPages(totalPosts))}
    /\ UNCHANGED <<posts, searchParams, totalPosts, fetched, view, error, queries>>
    /\ UNCHANGED <<categories, version, writeResult, post, card, trail, connected,
                   exitCode>>

CalcNext == Paginate

CalcSpec == CalcInit /\ [][CalcNext]_vars

(***************************************************************************)
(* The claims.                                                             *)
(***************************************************************************)
\* the integer the raw page parameter parses to (NaN if none)
Requested == ParseInt(PageOrDefault(searchParams))

\* C1: a raw page that parses to an integer n >= 1 gives currentPage = n; every
\* other raw page (absent, empty, non-numeric, zero, negative) gives currentPage = 1.
C1_PageNormalised ==
    pc = "paginated" =>
        IF IsNum(Requested) /\ Requested.val >= 1
        THEN currentPage = Num(Requested.val)
        ELSE currentPage = Num(1)

\* C2: for every raw page string currentPage is an integer >= 1 and the offset,
\* which is the skip handed to the fetch, is a non-negative multiple of the page size.
C2_CalculationTotal ==
    pc = "paginated" =>
        /\ IsNum(currentPage) /\ currentPage.val >= 1
        /\ IsNum(offset) /\ offset.val >= 0 /\ offset.val % POSTS_PER_PAGE = 0
        /\ IsNum(fetchArgs.skip) /\ fetchArgs.skip.val >= 0

\* C4: for every currentPage >= 1 the skip passed to the fetch is
\* (currentPage - 1) * pageSize, and the page size is 6.
C4_OffsetFormula ==
    (pc = "paginated" /\ IsNum(currentPage) /\ currentPage.val >= 1) =>
        /\ POSTS_PER_PAGE = 6
        /\ offset = Num((currentPage.val - 1) * 6)
        /\ fetchArgs = [skip |-> Num((currentPage.val - 1) * 6), take |-> 6]

C4_Witness ==
    /\ pc = "paginated"
    /\ searchParams = PageParam(<<"3">>)
    /\ currentPage = Num(3)
    /\ fetchArgs.skip = Num(12)

\* C5: totalPages is the least k with k * pageSize >= totalCount, and is 0 when
\* totalCount is 0.
C5_TotalPagesCeil ==
    pc = "paginated" =>
        /\ totalPages >= 0
        /\ totalPages * 6 >= totalPosts
        /\ \A k \in 0..(totalPages - 1) : k * 6 < totalPosts
        /\ (totalPosts = 0 => totalPages = 0)

C5_Witness ==
    /\ pc = "paginated"
    /\ totalPosts = 25
    /\ totalPages = 5

\* C3: with the store available, a request with page = "-5" or page = "abc" is
\* never an error: it completes, its fetch is issued with offset 0 and the first
\* page is rendered.
C3_InvalidPageNotAnError ==
    searchParams \in {PageParam(<<"-", "5">>), PageParam(<<"a", "b", "c">>)} =>
        /\ error # "validation"
        /\ (pc \in {"fetch", "done"} => fetchArgs.skip = Num(0))
        /\ (pc = "done" =>
                /\ currentPage = Num(1)
                /\ view.kind \in {"empty", "list"}
                /\ (view.kind = "list" => view.firstPost = Num(1)))

\* the published rows of the table, counted without the model's query operators
PublishedRows == {p \in posts : p.published = TRUE}

\* C6: a fetched page holds no row with published = false, and the count used
\* for totalPosts counts the published rows only.
C6_OnlyPublished ==
    /\ (pc = "done" =>
            \A i \in 1..Len(fetched) : fetched[i] \in posts /\ fetched[i].published)
    /\ (pc \in {"fetch", "done"} => totalPosts = Cardinality(PublishedRows))

\* a draft lies between two fetched rows in creation order
C6_Witness ==
    /\ pc = "done"
    /\ Len(fetched) >= 2
    /\ \E d \in posts :
            /\ ~d.published
            /\ fetched[1].createdAt > d.createdAt
            /\ d.createdAt > fetched[Len(fetched)].createdAt

\* C7: the rows of a fetched page are in createdAt descending order.
C7_NewestFirst ==
    pc = "done" =>
        \A i \in 1..(Len(fetched) - 1) : fetched[i].createdAt >= fetched[i + 1].createdAt

\* a full page holding two rows with the same createdAt
C7_Witness ==
    /\ pc = "done"
    /\ Len(fetched) = POSTS_PER_PAGE
    /\ \E i \in 1..(Len(fetched) - 1) : fetched[i].createdAt = fetched[i + 1].createdAt
    /\ \E i \in 1..(Len(fetched) - 1) : fetched[i].createdAt > fetched[i + 1].createdAt

Min(a, b) == IF a <= b THEN a ELSE b

\* r can stand at position k of the published rows ordered newest first
AtPosition(r, k) ==
    /\ r \in PublishedRows
    /\ Cardinality({q \in PublishedRows : q.createdAt > r.createdAt}) <= k - 1
    /\ Cardinality({q \in PublishedRows : q.createdAt >= r.createdAt}) >= k

\* C8: the fetch returns exactly the rows at positions offset+1 ..
\* min(offset+pageSize, N) of the N published rows ordered newest first.
C8_PageWindow ==
    (pc = "done" /\ IsNum(offset)) =>
        LET N == Cardinality(PublishedRows)
            first == offset.val + 1
            last == Min(offset.val + 6, N)
        IN  /\ Len(fetched) = (IF last >= first THEN last - first + 1 ELSE 0)
            /\ \A i \in 1..Len(fetched) : AtPosition(fetched[i], offset.val + i)
            /\ \A i, j \in 1..Len(fetched) : i # j => fetched[i] # fetched[j]

\* 25 published posts, page = "3": rows 13-18
C8_Witness ==
    /\ pc = "done"
    /\ posts = Store(25, 0, 0)
    /\ searchParams = PageParam(<<"3">>)
    /\ currentPage = Num(3)
    /\ offset = Num(12)
    /\ totalPages = 5
    /\ view.cards = <<13, 12, 11, 10, 9, 8>>
    /\ view.firstPost = Num(13)
    /\ view.lastPost = Num(18)

\* the request asks for a page past the last page of the table
BeyondLastPage ==
    /\ pc # "idle"
    /\ IsNum(Requested)
    /\ Requested.val >= 1
    /\ Requested.val * 6 >= Cardinality(PublishedRows) + 6

\* C9: a request for a page beyond the last page keeps the requested page
\* number, computes offset = (page - 1) * pageSize, fetches zero rows and ends
\* without an error or a redirect to another page.
C9_NotClamped ==
    BeyondLastPage =>
        /\ currentPage = Requested
        /\ offset = Num((Requested.val - 1) * 6)
        /\ error \in {"none", "store"}
        /\ pc \in {"count", "fetch", "done", "failed"}
        /\ (pc = "failed" => error = "store")
        /\ (pc = "done" =>
                /\ error = "none"
                /\ currentPage.val > totalPages
                /\ fetched = <<>>
                /\ view = EmptyState)

\* 25 published posts, page = "10"
C9_Witness ==
    /\ pc = "done"
    /\ Cardinality(PublishedRows) = 25
    /\ searchParams = PageParam(<<"1", "0">>)
    /\ currentPage = Num(10)
    /\ offset = Num(54)
    /\ totalPages = 5
    /\ fetched = <<>>

\* C10: when the table holds no published post, totalPages = 0, no navigation
\* control is rendered and the empty-state message is rendered in place of the grid.
C10_EmptyStore ==
    (pc = "done" /\ PublishedRows = {}) =>
        /\ totalPosts = 0
        /\ totalPages = 0
        /\ ~view.pagination.rendered
        /\ view.kind = "empty"
        /\ view.cards = <<>>

\* a table that holds a draft and nothing else
C10_Witness ==
    /\ pc = "done"
    /\ posts # {}
    /\ PublishedRows = {}
    /\ view = EmptyState

(***************************************************************************)
(* NavSpec: the Pagination component on its own.  Home hands it a          *)
(* currentPage that is Math.max(1, ...), so a number >= 1 or NaN, and a    *)
(* totalPages that is a count of pages.                                    *)
(***************************************************************************)
NavInit ==
    /\ posts = {}
    /\ pc = "props"
    /\ searchParams = NoParams
    /\ currentPage \in {Num(n) : n \in 1..MaxPage} \cup {NaN}
    /\ offset = Num(0)
    /\ totalPosts = 0
    /\ totalPages \in 0..MaxTotalPages
    /\ fetchArgs = NoArgs
    /\ fetched = <<>>
    /\ view = NoView
    /\ error = "none"
    /\ queries = <<>>
    /\ categories = {}
    /\ Untouched

\* <Pagination currentPage={currentPage} totalPages={totalPages} />
RenderPagination ==
    /\ pc = "props"
    /\ pc' = "rendered"
    /\ view' = [NoView EXCEPT !.kind = "nav",
                              !.pagination = Pagination(currentPage, totalPages)]
    /\ UNCHANGED <<posts, searchParams, currentPage, offset, totalPosts, totalPages,
                   fetchArgs, fetched, error, queries>>
    /\ UNCHANGED besideListing

NavNext == RenderPagination

NavSpec == NavInit /\ [][NavNext]_vars

\* C11: Pagination renders nothing when totalPages <= 1; otherwise Previous
\* targets currentPage - 1 and Next targets currentPage + 1, Previous is disabled
\* exactly when its target is below page 1 and Next is disabled exactly when its
\* target is above totalPages.
C11_PaginationControl ==
    pc = "rendered" =>
        LET nav == view.pagination
        IN  IF totalPages <= 1 THEN ~nav.rendered
            ELSE /\ nav.rendered
                 /\ nav.prevPage =
                        (IF IsNum(currentPage) THEN Num(currentPage.val - 1) ELSE NaN)
                 /\ nav.nextPage =
                        (IF IsNum(currentPage) THEN Num(currentPage.val + 1) ELSE NaN)
                 /\ nav.prevDisabled = (IsNum(nav.prevPage) /\ nav.prevPage.val < 1)
                 /\ nav.nextDisabled =
                        (IsNum(nav.nextPage) /\ nav.nextPage.val > totalPages)

\* the last of five pages: Previous is a link to page 4, Next is disabled
C11_Witness ==
    /\ pc = "rendered"
    /\ totalPages = 5
    /\ currentPage = Num(5)
    /\ view.pagination.rendered
    /\ ~view.pagination.prevDisabled
    /\ view.pagination.prevPage = Num(4)
    /\ view.pagination.nextDisabled

(***************************************************************************)
(* CardSpec: the PostCard component on its own.                            *)
(***************************************************************************)
\* the posts handed to PostCard: with and without excerpt and category
CardPosts ==
    {PostProp("Getting Started with Next.js 15", x, c, v, l, d) :
        x \in {Null, Some(""), Some("Learn the basics.")},
        c \in {Null, Some([id |-> "c1", name |-> "Technology", slug |-> "technology"])},
        v \in 0..MaxCounter,
        l \in 0..MaxCounter,
        d \in {<<2024, 1, 15>>, <<2025, 10, 17>>}}

CardInit ==
    /\ posts = {}
    /\ categories = {}
    /\ pc = "post"
    /\ searchParams = NoParams
    /\ currentPage = Num(1)
    /\ offset = Num(0)
    /\ totalPosts = 0
    /\ totalPages = 0
    /\ fetchArgs = NoArgs
    /\ fetched = <<>>
    /\ view = NoView
    /\ error = "none"
    /\ queries = <<>>
    /\ version = 0
    /\ writeResult = NoWrite
    /\ post \in CardPosts
    /\ card = NoCard
    /\ evaluations = {}
    /\ trail = <<>>
    /\ connected = FALSE
    /\ exitCode = Null

\* <PostCard post={post} />
RenderPostCard ==
    /\ pc = "post"
    /\ pc' = "card"
    /\ card' = PostCard(post)
    /\ UNCHANGED <<posts, searchParams, currentPage, offset, totalPosts, totalPages,
                   fetchArgs, fetched, view, error, queries>>
    /\ UNCHANGED <<categories, version, writeResult, post, evaluations, trail,
                   connected, exitCode>>

CardNext == RenderPostCard

CardSpec == CardInit /\ [][CardNext]_vars

\* C12: a post whose category is null is rendered without a category badge, a
\* post whose excerpt is null is rendered without an excerpt paragraph, and
\* title, views, likes and date are rendered for every post.
C12_OptionalFields ==
    pc = "card" =>
        /\ card.rendered
        /\ (post.category = Null => card.badge = <<>>)
        /\ (post.excerpt = Null => card.excerpt = <<>>)
        /\ card.title = <<post.title>>
        /\ card.views = <<post.views>>
        /\ card.likes = <<post.likes>>
        /\ Len(card.date) = 1

\* a post with neither category nor excerpt and no views yet
C12_Witness ==
    /\ pc = "card"
    /\ post.category = Null
    /\ post.excerpt = Null
    /\ post.views = 0
    /\ card.badge = <<>>
    /\ card.excerpt = <<>>
    /\ card.views = <<0>>
    /\ card.date = <<<<"January", 15, 2024>>>>

(***************************************************************************)
(* StoreSpec: the writes of an authoring process against the two tables.   *)
(***************************************************************************)
CategoryIds == {"c1", "c2"}

CategoryNames == {"Technology", "Lifestyle"}

CategorySlugs == {"technology", "lifestyle"}

\* post ids are numbered so that rows with equal createdAt can be ordered
StorePostIds == {1, 2}

StorePostSlugs == {"getting-started", "building-cms"}

\* the categoryId a post may be written with: null, or any category id
CategoryRefs == {Null} \cup {Some(c) : c \in CategoryIds}

StoreInit ==
    /\ posts = {}
    /\ categories = {}
    /\ Idle
    /\ Untouched

StoreNext ==
    \/ \E id \in CategoryIds, name \in CategoryNames, slug \in CategorySlugs :
            InsertCategory(id, name, slug)
    \/ \E id \in StorePostIds, slug \in StorePostSlugs, pub \in BOOLEAN,
          cat \in CategoryRefs : InsertPost(id, slug, pub, cat)
    \/ \E id \in CategoryIds : DeleteCategory(id)
    \/ \E id \in StorePostIds : DeletePost(id)

StoreSpec == StoreInit /\ [][StoreNext]_vars

\* the post of the table before the step with this id, if it is still there
Kept(p) == {q \in posts' : q.id = p.id}

\* C19: deleting a Category deletes no Post: every Post that referenced it
\* remains, with categoryId null and its other columns as they were, and the
\* Posts that reference other categories or none are unchanged.
C19_DeleteCategorySetsNull ==
    [][\A c \in categories \ categories' :
            /\ \A p \in posts :
                    Kept(p) = {IF p.categoryId = Some(c.id)
                               THEN [p EXCEPT !.categoryId = Null]
                               ELSE p}
            /\ Cardinality(posts') = Cardinality(posts)]_vars

\* a category was deleted: the post that referenced it is still there with
\* categoryId null, beside a post that still references the other category
C19_Witness ==
    /\ writeResult.op = "DeleteCategory"
    /\ \E p, q \in posts :
            /\ p.id \in writeResult.nulled
            /\ p.categoryId = Null
            /\ q.categoryId # Null
    /\ Cardinality(categories) = 1

\* the constraints of the schema: Post_slug_key; Category_slug_key and
\* Category_name_key; Post_categoryId_fkey (the primary keys beside them)
StoreInv ==
    /\ \A p, q \in posts : p.slug = q.slug => p = q
    /\ \A p, q \in posts : p.id = q.id => p = q
    /\ \A c, d \in categories : (c.slug = d.slug \/ c.name = d.name) => c = d
    /\ \A c, d \in categories : c.id = d.id => c = d
    /\ \A p \in posts :
            p.categoryId = Null \/ \E c \in categories : p.categoryId = Some(c.id)

\* C20: after any sequence of writes (create post, create category, delete
\* category, delete post) Post slugs are pairwise distinct, Category slugs and
\* names are pairwise distinct, and every Post.categoryId is null or the id of
\* an existing Category; a rejected write leaves both tables unchanged.
C20_ConstraintsHold ==
    /\ []StoreInv
    /\ [][writeResult'.outcome = "rejected"
            => (posts' = posts /\ categories' = categories)]_vars

\* a post insert was rejected while both tables hold rows
C20_Witness ==
    /\ writeResult = Rejected("InsertPost")
    /\ posts # {}
    /\ categories # {}
    /\ version = MaxWrites

(***************************************************************************)
(* WriteSpec: requests for the listing served while an authoring process   *)
(* writes to the store.  Nothing orders a write against the two reads of a *)
(* request: each read sees the tables as they are when it is answered.     *)
(***************************************************************************)
SeedSlugs == <<"getting-started", "building-cms", "minimalist-living">>

WritePostIds == 1..Len(SeedSlugs)

SeedCategory == CategoryRow("c1", "Technology", "technology")

\* n published posts written before the first request, oldest first
Seeded(n) ==
    {PostRecord(i, SeedSlugs[i], TRUE, IF i % 2 = 1 THEN Some("c1") ELSE Null, i - n)
        : i \in 1..n}

WriteParams == {NoParams, PageParam(<<"2">>), PageParam(<<"a", "b", "c">>)}

WriteInit ==
    /\ \E n \in 0..MaxSeeded : posts = Seeded(n)
    /\ categories = {SeedCategory}
    /\ Idle
    /\ Untouched

Racing == version < MaxRacing

WriteNext ==
    \/ \E sp \in WriteParams : Request(sp)
    \/ CountReturns
    \/ CountFails
    \/ \E tb \in TieBreaks : FetchReturns(tb)
    \/ FetchRejected
    \/ FetchFails
    \/ Racing /\ \E id \in WritePostIds, i \in WritePostIds, pub \in BOOLEAN,
                    cat \in {Null, Some("c1")} : InsertPost(id, SeedSlugs[i], pub, cat)
    \/ Racing /\ \E id \in WritePostIds : DeletePost(id)
    \/ Racing /\ InsertCategory("c1", "Technology", "technology")
    \/ Racing /\ DeleteCategory("c1")

WriteSpec == WriteInit /\ [][WriteNext]_vars

\* the range shown is the one the total shown implies for this page
RangeMatchesTotal ==
    /\ view.firstPost.val <= view.lastPost.val
    /\ view.lastPost.val = Min(currentPage.val * POSTS_PER_PAGE, view.totalPosts)

\* C16: a page whose displayed range does not match its displayed total (for
\* example a last shown index above totalPosts) is rendered only when a write
\* was committed between the answer to count and the answer to the fetch; with
\* no write between the two reads the range matches the total.
C16_MismatchNeedsWrite ==
    (/\ pc = "done"
     /\ view.kind = "list"
     /\ IsNum(currentPage)
     /\ ~RangeMatchesTotal) => queries[1].at # queries[2].at

\* a page is rendered whose last shown index is above the total it shows
C16_Witness ==
    /\ pc = "done"
    /\ view.kind = "list"
    /\ IsNum(view.lastPost)
    /\ view.lastPost.val > view.totalPosts
    /\ queries[1].at < queries[2].at

\* C13: a step of a listing request (any page parameter, success or failure)
\* leaves every Post row and every Category row as it was, views and likes
\* included.
C13_ListingReadOnly ==
    [][pc' # pc => (posts' = posts /\ categories' = categories)]_vars

\* a request has rendered posts of tables that hold rows of both kinds
C13_Witness ==
    /\ pc = "done"
    /\ Len(fetched) > 0
    /\ \E p \in posts : p.categoryId # Null
    /\ categories # {}

\* the queries a request has issued so far: count, then findMany, never twice
IssuedOnce ==
    \/ queries = <<>>
    \/ Len(queries) = 1 /\ queries[1].name = "count"
    \/ /\ Len(queries) = 2
       /\ queries[1].name = "count"
       /\ queries[2].name = "findMany"
       /\ queries[1].at >= 0

\* C14: a store failure in count() or in findMany() fails the request as a
\* whole: nothing is rendered, not even from a count that was answered, and the
\* failed query is not issued again; a request that completes has had both
\* reads answered and no failure.
C14_FailurePropagates ==
    /\ IssuedOnce
    /\ error = "store" =>
            /\ pc = "failed"
            /\ view = NoView
            /\ fetched = <<>>
            /\ queries[Len(queries)].at = -1
    /\ pc = "done" =>
            /\ error = "none"
            /\ Len(queries) = 2
            /\ queries[2].at >= 0

\* findMany() failed after count() had answered with a total above zero
C14_Witness ==
    /\ pc = "failed"
    /\ error = "store"
    /\ Len(queries) = 2
    /\ totalPosts > 0
    /\ view = NoView

\* C15: a successful request has issued exactly one count() and exactly one
\* findMany(), and the arguments of findMany() are (currentPage - 1) * 6 and 6,
\* computed from the page parameter alone, whatever count() answered.
C15_OneCountOneFetch ==
    /\ pc = "done" =>
            /\ Len(queries) = 2
            /\ Cardinality({i \in 1..2 : queries[i].name = "count"}) = 1
            /\ Cardinality({i \in 1..2 : queries[i].name = "findMany"}) = 1
    /\ pc \in {"fetch", "done"} =>
            /\ fetchArgs.take = POSTS_PER_PAGE
            /\ fetchArgs.skip =
                    JsMul(JsSub(JsMax(Num(1), Requested), Num(1)), Num(POSTS_PER_PAGE))

\* a request for a page beyond the last has completed: the skip it fetched
\* with is above the total count() answered
C15_Witness ==
    /\ pc = "done"
    /\ totalPosts > 0
    /\ IsNum(fetchArgs.skip)
    /\ fetchArgs.skip.val >= totalPosts

(***************************************************************************)
(* RepeatSpec: Home's arithmetic evaluated for one request after another.  *)
(***************************************************************************)
RepeatPages == {NoParams, PageParam(<<"2">>), PageParam(<<"a", "b", "c">>)}

RepeatTotals == {0, 7}

RepeatInit ==
    /\ CalcInit
    /\ searchParams \in RepeatPages
    /\ totalPosts \in RepeatTotals

\* the next request arrives: Home is called with its own searchParams, and the
\* store answers its count
NextRequest(sp, n) ==
    /\ pc = "paginated"
    /\ Cardinality(evaluations) < MaxEvaluations
    /\ pc' = "input"
    /\ searchParams' = sp
    /\ totalPosts' = n
    /\ UNCHANGED <<posts, currentPage, offset, totalPages, fetchArgs, fetched, view,
                   error, queries>>
    /\ UNCHANGED besideListing

RepeatNext ==
    \/ Paginate
    \/ \E sp \in RepeatPages, n \in RepeatTotals : NextRequest(sp, n)

RepeatSpec == RepeatInit /\ [][RepeatNext]_vars

\* C21: two evaluations with the same raw page parameter, page size and
\* totalCount yield the same currentPage, offset and totalPages, whatever the
\* request before each of them was.
C21_Deterministic ==
    \A e, f \in evaluations :
        (e.page = f.page /\ e.pageSize = f.pageSize /\ e.totalCount = f.totalCount)
            => /\ e.currentPage = f.currentPage
               /\ e.offset = f.offset
               /\ e.totalPages = f.totalPages

\* the same inputs have been evaluated after two different earlier requests
C21_Witness ==
    \E e, f \in evaluations :
        /\ e.page = f.page
        /\ e.totalCount = f.totalCount
        /\ e.earlier # f.earlier
        /\ ~IsNum(ParseInt(PageOrDefault(e.page)))

\* C22: whenever the fetch returns zero rows the rendered list is the fixed
\* empty-state message, the same for every currentPage, totalPages and
\* totalPosts, with no navigation control even when totalPages > 1.
C22_EmptyPageIsEmptyState ==
    (pc = "done" /\ Len(fetched) = 0) =>
        /\ view = EmptyState
        /\ view.pagination = NoNav
        /\ view.pagination.rendered = FALSE

\* a page beyond the last of a table with more than one page has been rendered
C22_Witness ==
    /\ pc = "done"
    /\ Len(fetched) = 0
    /\ totalPages > 1
    /\ IsNum(currentPage)
    /\ currentPage.val > totalPages

(***************************************************************************)
(* DraftSpec: listing requests served while posts are created without a    *)
(* value for published, and published later.                               *)
(***************************************************************************)
DraftInit == WriteInit

DraftNext ==
    \/ \E sp \in WriteParams : Request(sp)
    \/ CountReturns
    \/ CountFails
    \/ \E tb \in TieBreaks : FetchReturns(tb)
    \/ FetchRejected
    \/ FetchFails
    \/ Racing /\ \E id \in WritePostIds, cat \in {Null, Some("c1")} :
                    InsertPostDefault(id, SeedSlugs[id], cat)
    \/ Racing /\ \E id \in WritePostIds : PublishPost(id)

DraftSpec == DraftInit /\ [][DraftNext]_vars

\* C23: a post created without a value for published is stored with
\* published = false, and while a post's flag is false no count counts it and
\* no fetch returns it: the count is the number of rows whose flag is true when
\* it is answered, and every fetched row has its flag true when it is fetched.
C23_DraftByDefault ==
    [][/\ (writeResult'.op = "InsertPostDefault" /\ version' # version) =>
            /\ Cardinality(posts' \ posts) = 1
            /\ \A p \in posts' \ posts : p.published = FALSE
       /\ (pc = "count" /\ pc' = "fetch") =>
            totalPosts' = Cardinality({p \in posts : p.published = TRUE})
       /\ (pc = "fetch" /\ pc' = "done") =>
            \A i \in 1..Len(fetched') : fetched'[i] \in posts /\ fetched'[i].published = TRUE
      ]_vars

\* a request counted and fetched after a post was created without a value for
\* published: the post is in the table, and neither counted nor shown
C23_Witness ==
    /\ pc = "done"
    /\ writeResult = Committed("InsertPostDefault", {})
    /\ queries[1].at = version
    /\ queries[2].at = version
    /\ \E p \in posts : p.createdAt = version /\ ~p.published
    /\ Len(fetched) > 0
    /\ totalPosts = Len(fetched)
    /\ totalPosts = Cardinality(posts) - 1

\* the summary is rendered by a request with no write between its two reads
SummaryRendered ==
    /\ pc = "done"
    /\ view.kind = "list"
    /\ queries[1].at = queries[2].at

\* C24: in "Showing X-Y of Z", X = (currentPage - 1) * 6 + 1,
\* Y = X + (number of fetched rows) - 1 and Z = totalPosts; whenever the summary
\* is rendered and no write happened between the count and the fetch,
\* 1 <= X <= Y <= Z.
C24_ShowingRange ==
    SummaryRendered =>
        /\ view.firstPost = JsAdd(JsMul(JsSub(currentPage, Num(1)), Num(6)), Num(1))
        /\ view.lastPost = JsSub(JsAdd(view.firstPost, Num(Len(fetched))), Num(1))
        /\ view.totalPosts = totalPosts
        /\ IsNum(view.firstPost)
        /\ IsNum(view.lastPost)
        /\ 1 <= view.firstPost.val
        /\ view.firstPost.val <= view.lastPost.val
        /\ view.lastPost.val <= view.totalPosts

\* the same for the requests whose page parameter gave a number
C24_ShowingRangeOfNumbers ==
    (SummaryRendered /\ IsNum(currentPage)) => C24_ShowingRange

(***************************************************************************)
(* A visitor paging through an unchanging table.  The trail holds the      *)
(* pages shown before the one on screen.                                   *)
(***************************************************************************)
\* String(n) for an integer n >= 0
RECURSIVE ToDigits(_)
ToDigits(n) ==
    IF n < 10 THEN <<DigitChars[n + 1]>>
    ELSE ToDigits(n \div 10) \o <<DigitChars[(n % 10) + 1]>>

\* the searchParams of the URL `/?page=${page}`
Href(page) ==
    PageParam(IF ~IsNum(page) THEN <<"N", "a", "N">>
              ELSE IF page.val < 0 THEN <<"-">> \o ToDigits(-page.val)
              ELSE ToDigits(page.val))

\* the page on screen: its number, its rows and its navigation control
Shown == [page |-> currentPage, rows |-> fetched, nav |-> view.pagination]

\* every page shown so far, the one on screen included
Pages == IF pc = "done" THEN Append(trail, Shown) ELSE trail

\* tables whose rows have pairwise distinct createdAt: n rows, row d a draft
BrowsedStores == UNION {{Store(n, d, 0) : d \in 0..n} : n \in 0..MaxBrowsed}

BrowseInit ==
    /\ posts \in BrowsedStores
    /\ categories = {}
    /\ Idle
    /\ Untouched

\* the visitor opens "/"
Open ==
    /\ pc = "idle"
    /\ StartRequest(NoParams)
    /\ trail' = <<>>

\* the visitor edits the URL to the page after the one on screen, until a page
\* past the last has been shown
TypeNextPage ==
    /\ pc = "done"
    /\ IsNum(currentPage)
    /\ currentPage.val <= totalPages
    /\ StartRequest(Href(Num(currentPage.val + 1)))
    /\ trail' = Append(trail, Shown)

PagesNext ==
    \/ Open
    \/ TypeNextPage
    \/ CountReturns
    \/ \E tb \in TieBreaks : FetchReturns(tb)

PagesSpec == BrowseInit /\ [][PagesNext]_vars

RECURSIVE ConcatRows(_)
ConcatRows(pages) ==
    IF pages = <<>> THEN <<>> ELSE Head(pages).rows \o ConcatRows(Tail(pages))

\* the number of pages of the table: the published rows in sixes, rounded up
PagesOfTable == (Cardinality(PublishedRows) + 5) \div 6

\* C25: for an unchanging table whose published posts have pairwise distinct
\* createdAt, the pages 1..totalPages partition the published posts: the
\* fetched pages concatenated in page order hold every published post exactly
\* once, newest first; every page before the last has 6 rows, the last page
\* between 1 and 6, and every page after the last is empty.
C25_PagesPartition ==
    LET all == ConcatRows(Pages)
    IN  /\ \A k \in 1..Len(Pages) :
                /\ Pages[k].page = Num(k)
                /\ k < PagesOfTable => Len(Pages[k].rows) = 6
                /\ k = PagesOfTable => Len(Pages[k].rows) \in 1..6
                /\ k > PagesOfTable => Len(Pages[k].rows) = 0
        /\ \A i \in 1..Len(all) : all[i] \in PublishedRows
        /\ \A i, j \in 1..Len(all) : i < j => all[i].createdAt > all[j].createdAt
        /\ Len(Pages) >= PagesOfTable => {all[i] : i \in 1..Len(all)} = PublishedRows
        /\ pc = "done" => totalPages = PagesOfTable

\* three pages and the empty page after them have been shown, of a table of
\* 13 published posts and a draft
C25_Witness ==
    /\ pc = "done"
    /\ Len(trail) = 3
    /\ currentPage = Num(4)
    /\ fetched = <<>>
    /\ Len(trail[3].rows) = 1
    /\ Cardinality(PublishedRows) = 13
    /\ Cardinality(posts) = 14

\* page is a page number of the listing
InRange(page) == IsNum(page) /\ 1 <= page.val /\ page.val <= totalPages

\* C26: every active navigation link a listing request renders targets a page
\* in 1..totalPages, for every page parameter and every table.
C26_LinksInRange ==
    (pc = "done" /\ view.pagination.rendered) =>
        /\ ~view.pagination.prevDisabled => InRange(view.pagination.prevPage)
        /\ ~view.pagination.nextDisabled => InRange(view.pagination.nextPage)

\* the same for the requests whose page parameter gave a number
C26_LinksInRangeOfNumbers == IsNum(currentPage) => C26_LinksInRange

(***************************************************************************)
(* WalkSpec: the visitor opens "/", follows Next until it is disabled and  *)
(* then Previous until it is disabled.                                     *)
(***************************************************************************)
\* the visitor has not turned back yet
GoingForward ==
    IF trail = <<>> THEN TRUE ELSE trail[Len(trail)].page.val < currentPage.val

\* the visitor clicks the Next link of the page on screen
FollowNext ==
    /\ pc = "done"
    /\ view.pagination.rendered
    /\ ~view.pagination.nextDisabled
    /\ GoingForward
    /\ StartRequest(Href(view.pagination.nextPage))
    /\ trail' = Append(trail, Shown)

\* the visitor clicks the Previous link of the page on screen, once Next is
\* disabled or a Previous link has been followed
FollowPrevious ==
    /\ pc = "done"
    /\ view.pagination.rendered
    /\ ~view.pagination.prevDisabled
    /\ IF view.pagination.nextDisabled THEN TRUE ELSE ~GoingForward
    /\ StartRequest(Href(view.pagination.prevPage))
    /\ trail' = Append(trail, Shown)

WalkNext ==
    \/ Open
    \/ FollowNext
    \/ FollowPrevious
    \/ CountReturns
    \/ \E tb \in TieBreaks : FetchReturns(tb)

WalkSpec == BrowseInit /\ [][WalkNext]_vars

\* the walk is over: the visitor is back on page 1 after 2 * (totalPages - 1) clicks
WalkDone ==
    /\ pc = "done"
    /\ currentPage = Num(1)
    /\ Len(trail) = 2 * (PagesOfTable - 1)

\* the k-th page of the walk: up to the last page, then down again
WalkPage(k) == IF k <= PagesOfTable THEN k ELSE 2 * PagesOfTable - k

\* the page on screen is not the end of the walk: it has the link to follow next
WalkGoesOn ==
    (pc = "done" /\ Len(Pages) < 2 * PagesOfTable - 1) =>
        IF Len(Pages) < PagesOfTable
        THEN ~view.pagination.nextDisabled /\ GoingForward
        ELSE /\ ~view.pagination.prevDisabled
             /\ IF view.pagination.nextDisabled THEN TRUE ELSE ~GoingForward

\* what the walk has shown so far is the walk of the claim
WalkInv ==
    PagesOfTable >= 2 =>
        /\ Len(Pages) <= 2 * PagesOfTable - 1
        /\ WalkGoesOn
        /\ WalkDone => view.pagination.prevDisabled
        /\ \A k \in 1..Len(Pages) :
                /\ Pages[k].page = Num(WalkPage(k))
                /\ Pages[k].rows # <<>>
                /\ Pages[k].nav.rendered
                /\ Pages[k].nav.nextDisabled <=> (WalkPage(k) = PagesOfTable)
                /\ Pages[k].nav.prevDisabled <=> (WalkPage(k) = 1)

\* C27: for an unchanging table with totalPages >= 2, starting at page 1 and
\* following Next reaches page totalPages after exactly totalPages - 1 steps,
\* where Next is disabled; following Previous from there returns to page 1,
\* where Previous is disabled; no page of the walk is empty.  The k-th page
\* shown is page k on the way up and page 2 * totalPages - k on the way down,
\* and every page but the last of the walk has the link the walk follows next.
C27_WalkThereAndBack == WalkInv

\* a table of three pages has been walked to the end and back
C27_Witness ==
    /\ WalkDone
    /\ PagesOfTable = 3
    /\ trail[3].page = Num(3)
    /\ trail[3].nav.nextDisabled
    /\ view.pagination.prevDisabled

(***************************************************************************)
(* SeedSpec: prisma/seed.ts, one awaited statement per step, and listing   *)
(* requests once it has finished.  The store gives every created row its   *)
(* id and its createdAt: here the number of the write that created it.     *)
(***************************************************************************)
SeedCategories ==
    <<[name |-> "Technology", slug |-> "technology"],
      [name |-> "Lifestyle", slug |-> "lifestyle"],
      [name |-> "Tutorial", slug |-> "tutorial"]>>

\* const posts = [...]: slug, published, the category by its slug, views, likes
SeedPosts ==
    <<[slug |-> "getting-started-nextjs-15", published |-> TRUE,
       category |-> "technology", views |-> 150, likes |-> 23],
      [slug |-> "understanding-server-components", published |-> TRUE,
       category |-> "technology", views |-> 89, likes |-> 12],
      [slug |-> "building-cms-nextjs", published |-> TRUE,
       category |-> "tutorial", views |-> 234, likes |-> 45],
      [slug |-> "art-minimalist-living", published |-> TRUE,
       category |-> "lifestyle", views |-> 312, likes |-> 67],
      [slug |-> "advanced-typescript-patterns", published |-> TRUE,
       category |-> "tutorial", views |-> 178, likes |-> 34],
      [slug |-> "work-life-balance-tech", published |-> FALSE,
       category |-> "lifestyle", views |-> 0, likes |-> 0]>>

CategorySteps == <<"createTech", "createLifestyle", "createTutorial">>

PostSteps ==
    <<"createPost1", "createPost2", "createPost3", "createPost4", "createPost5",
      "createPost6">>

\* main(), statement by statement, then the .finally() of the call
SeedScript ==
    <<"deletePosts", "deleteCategories">> \o CategorySteps \o PostSteps
        \o <<"disconnect">>

\* the statement after the one at pc
AfterStep == SeedScript[(CHOOSE i \in 1..Len(SeedScript) : SeedScript[i] = pc) + 1]

\* the script's own variables change and nothing else
besideSeed ==
    <<searchParams, currentPage, offset, totalPosts, totalPages, fetchArgs, fetched,
      view, error, queries, post, card, evaluations, trail>>

\* tables left by earlier work: empty, or rows that clash with the seed's
\* (ids and times at or below zero: they were written before the run)
PriorStores ==
    {[posts |-> {}, categories |-> {}],
     [posts |-> {PostRecord(0, "getting-started-nextjs-15", TRUE, Some(0), 0),
                 PostRecord(-1, "my-own-post", TRUE, Null, -1)},
      categories |-> {CategoryRow(0, "Technology", "technology"),
                      CategoryRow(-1, "News", "news")}]}

SeedInit ==
    /\ \E st \in PriorStores : posts = st.posts /\ categories = st.categories
    /\ Idle
    /\ Untouched

\* npx prisma db seed
RunSeed ==
    /\ pc \in {"idle", "done", "exited"}
    /\ version + 11 <= MaxSeedWrites
    /\ pc' = "deletePosts"
    /\ exitCode' = Null
    /\ UNCHANGED <<posts, categories, version, writeResult, connected, besideSeed>>

\* await prisma.post.deleteMany()
SeedDeletePosts ==
    /\ pc = "deletePosts"
    /\ pc' = AfterStep
    /\ posts' = {}
    /\ connected' = TRUE
    /\ version' = version + 1
    /\ writeResult' = Committed("deleteMany", {})
    /\ UNCHANGED <<categories, exitCode, besideSeed>>

\* SeedDeleteCategories left out of main()
SeedKeepCategories ==
    /\ pc = "deleteCategories"
    /\ pc' = AfterStep
    /\ version' = version + 1
    /\ writeResult' = Committed("deleteMany", {})
    /\ UNCHANGED <<posts, categories, connected, exitCode, besideSeed>>

\* await prisma.category.deleteMany()
SeedDeleteCategories ==
    /\ pc = "deleteCategories"
    /\ pc' = AfterStep
    /\ categories' = {}
    /\ posts' = {IF p.categoryId # Null THEN [p EXCEPT !.categoryId = Null] ELSE p
                    : p \in posts}
    /\ version' = version + 1
    /\ writeResult' = Committed("deleteMany", {p.id : p \in {q \in posts : q.categoryId # Null}})
    /\ UNCHANGED <<connected, exitCode, besideSeed>>

\* a create() the store refuses rejects: main().catch() logs and exits with 1
SeedRejected(op) ==
    /\ pc' = "exited"
    /\ exitCode' = Some(1)
    /\ writeResult' = Rejected(op)
    /\ UNCHANGED <<posts, categories, version, connected, besideSeed>>

\* await prisma.category.create({ data: { name, slug } })
SeedCreateCategory(i) ==
    /\ pc = CategorySteps[i]
    /\ LET row == CategoryRow(version + 1, SeedCategories[i].name, SeedCategories[i].slug)
       IN  IF CategoryAccepted(row)
           THEN /\ pc' = AfterStep
                /\ categories' = categories \cup {row}
                /\ version' = version + 1
                /\ writeResult' = Committed("InsertCategory", {})
                /\ UNCHANGED <<posts, connected, exitCode, besideSeed>>
           ELSE SeedRejected("InsertCategory")

\* tech.id, lifestyle.id, tutorial.id: the id of the category created with this slug
IdOfCategory(slug) == (CHOOSE c \in categories : c.slug = slug).id

\* for (const post of posts) await prisma.post.create({ data: post })
SeedCreatePost(i) ==
    /\ pc = PostSteps[i]
    /\ LET row == [PostRecord(version + 1, SeedPosts[i].slug, SeedPosts[i].published,
                              Some(IdOfCategory(SeedPosts[i].category)), version + 1)
                      EXCEPT !.views = SeedPosts[i].views, !.likes = SeedPosts[i].likes]
       IN  IF PostAccepted(row)
           THEN /\ pc' = AfterStep
                /\ posts' = posts \cup {row}
                /\ version' = version + 1
                /\ writeResult' = Committed("InsertPost", {})
                /\ UNCHANGED <<categories, connected, exitCode, besideSeed>>
           ELSE SeedRejected("InsertPost")

\* .finally(async () => { await prisma.$disconnect() }), and the process ends
SeedDisconnect ==
    /\ pc = "disconnect"
    /\ pc' = "exited"
    /\ connected' = FALSE
    /\ exitCode' = Some(0)
    /\ UNCHANGED <<posts, categories, version, writeResult, besideSeed>>

\* an awaited statement of main() rejects because the store is unavailable:
\* main().catch() logs the error and calls process.exit(1), which ends the
\* process before the .finally() callback is run
SeedFails ==
    /\ pc \in {SeedScript[i] : i \in 1..(Len(SeedScript) - 1)}
    /\ pc' = "exited"
    /\ exitCode' = Some(1)
    /\ UNCHANGED <<posts, categories, version, writeResult, connected, besideSeed>>

\* a visitor opens "/" after the script has ended
VisitAfterSeed ==
    /\ pc = "exited"
    /\ StartRequest(NoParams)
    /\ UNCHANGED trail

SeedNext ==
    \/ RunSeed
    \/ SeedDeletePosts
    \/ SeedDeleteCategories
    \/ \E i \in 1..Len(CategorySteps) : SeedCreateCategory(i)
    \/ \E i \in 1..Len(PostSteps) : SeedCreatePost(i)
    \/ SeedDisconnect
    \/ SeedFails
    \/ VisitAfterSeed
    \/ CountReturns
    \/ \E tb \in TieBreaks : FetchReturns(tb)

SeedSpec == SeedInit /\ [][SeedNext]_vars

\* what the tables hold, ids and times aside
Content ==
    [categories |-> {[name |-> c.name, slug |-> c.slug] : c \in categories},
     posts |-> {[slug |-> p.slug, published |-> p.published, views |-> p.views,
                 likes |-> p.likes,
                 category |-> {c.slug : c \in {d \in categories : p.categoryId = Some(d.id)}}]
                    : p \in posts}]

\* what the script writes
SeedContent ==
    [categories |-> {SeedCategories[i] : i \in 1..Len(SeedCategories)},
     posts |-> {[slug |-> SeedPosts[i].slug, published |-> SeedPosts[i].published,
                 views |-> SeedPosts[i].views, likes |-> SeedPosts[i].likes,
                 category |-> {SeedPosts[i].category}] : i \in 1..Len(SeedPosts)}]

\* the script has run to its end at least once and is not running
SeedFinished == exitCode = Some(0) /\ pc \in {"exited", "count", "fetch", "done"}

\* C28: run from any prior tables, the seed script deletes all posts, then all
\* categories, then creates its 3 categories and its 6 posts (5 published, 1
\* draft): no create is refused, after every run that ends the tables hold
\* exactly that content (after a second run as after the first), and a listing
\* request after it shows the 5 published posts and not the draft.
C28_SeedResets ==
    /\ writeResult.outcome # "rejected"
    /\ pc = "deleteCategories" => posts = {}
    /\ pc = CategorySteps[1] => (posts = {} /\ categories = {})
    /\ SeedFinished =>
            /\ Content = SeedContent
            /\ Cardinality(categories) = 3
            /\ Cardinality(posts) = 6
            /\ Cardinality({p \in posts : p.published}) = 5
            /\ Cardinality({p \in posts : ~p.published}) = 1
    /\ (SeedFinished /\ pc = "done") =>
            /\ totalPosts = 5
            /\ Len(fetched) = 5
            /\ \A i \in 1..5 : fetched[i].published
            /\ {fetched[i].slug : i \in 1..5} = {SeedPosts[i].slug : i \in 1..5}

\* the listing after the second run in a row over tables that held other rows
C28_Witness ==
    /\ pc = "done"
    /\ exitCode = Some(0)
    /\ version = MaxSeedWrites
    /\ Len(fetched) = 5
    /\ Content = SeedContent

(***************************************************************************)
(* ScriptSpec: scripts/test-db.ts.  queries logs the calls made on the     *)
(* store client, $disconnect included.                                     *)
(***************************************************************************)
\* the awaited queries of the try block, in order
TestQueries == <<"category.count", "post.count", "post.count.published", "post.findFirst">>

\* the statement after query i: the next query, or the finally block
AfterQuery(i) == IF i < Len(TestQueries) THEN TestQueries[i + 1] ELSE "finally"

Called(name) == [name |-> name, at |-> version]

ScriptInit == BrowseInit

\* npx tsx scripts/test-db.ts
RunTestDb ==
    /\ pc = "idle"
    /\ pc' = TestQueries[1]
    /\ UNCHANGED <<posts, searchParams, currentPage, offset, totalPosts, totalPages,
                   fetchArgs, fetched, view, error, queries>>
    /\ UNCHANGED besideListing

\* an awaited query resolves and its result is logged
TestQueryReturns(i) ==
    /\ pc = TestQueries[i]
    /\ pc' = AfterQuery(i)
    /\ connected' = TRUE
    /\ queries' = Append(queries, Called(TestQueries[i]))
    /\ totalPosts' = IF i = 3 THEN CountPublished(posts)
                     ELSE IF i = 2 THEN Cardinality(posts) ELSE totalPosts
    /\ UNCHANGED <<posts, searchParams, currentPage, offset, totalPages, fetchArgs,
                   fetched, view, error>>
    /\ UNCHANGED <<categories, version, writeResult, post, card, evaluations, trail,
                   exitCode>>

\* an awaited query rejects: the catch block logs the error and calls
\* process.exit(1), which ends the process there; the finally block is not run
TestQueryFails(i) ==
    /\ pc = TestQueries[i]
    /\ pc' = "exited"
    /\ error' = "store"
    /\ exitCode' = Some(1)
    /\ queries' = Append(queries, Called(TestQueries[i]))
    /\ connected' \in {connected, TRUE}
    /\ UNCHANGED <<posts, searchParams, currentPage, offset, totalPosts, totalPages,
                   fetchArgs, fetched, view>>
    /\ UNCHANGED <<categories, version, writeResult, post, card, evaluations, trail>>

\* finally { await db.$disconnect() } after the try block has completed, and
\* the process ends
TestFinally ==
    /\ pc = "finally"
    /\ pc' = "exited"
    /\ connected' = FALSE
    /\ exitCode' = Some(0)
    /\ queries' = Append(queries, Called("$disconnect"))
    /\ UNCHANGED <<posts, searchParams, currentPage, offset, totalPosts, totalPages,
                   fetchArgs, fetched, view, error>>
    /\ UNCHANGED <<categories, version, writeResult, post, card, evaluations, trail>>

ScriptNext ==
    \/ RunTestDb
    \/ \E i \in 1..Len(TestQueries) : TestQueryReturns(i)
    \/ \E i \in 1..Len(TestQueries) : TestQueryFails(i)
    \/ TestFinally

ScriptSpec == ScriptInit /\ [][ScriptNext]_vars

\* db.$disconnect() has been called
Disconnected == \E i \in 1..Len(queries) : queries[i].name = "$disconnect"

\* C29: the test-db script disconnects on every path: when the process has
\* ended, db.$disconnect() has been executed, after a successful run and after
\* a failed query alike, and after a failed query the exit code is 1.
C29_AlwaysDisconnects ==
    pc = "exited" =>
        /\ Disconnected
        /\ ~connected
        /\ error = "store" => exitCode = Some(1)

\* the part of C29 the script keeps: a failed query ends the process with exit
\* code 1, and a run without a failure disconnects and ends with 0
C29_ExitCodes ==
    pc = "exited" =>
        /\ error = "store" => exitCode = Some(1)
        /\ error = "none" => (Disconnected /\ ~connected /\ exitCode = Some(0))

====
